---------------------------- MODULE Spec2Model ----------------------------
(***************************************************************************)
(* A model of the Entra ID agent: the orchestrator                         *)
(* (src/app_orchestrator.py), the Microsoft Graph client with its token    *)
(* cache (src/utils/graph_service.py) and the command parser's validation  *)
(* (src/utils/openai_service.py).                                          *)
(*                                                                         *)
(* Threads run process_command, or call GraphService methods directly,     *)
(* against ONE shared GraphService instance.  Every remote call is a       *)
(* _make_request, which is split into the steps of _get_token (check,      *)
(* fetch, store token, store expiry, return) followed by the HTTP request. *)
(* The credential provider, the identity provider and the language model   *)
(* are the environment: their answers are chosen nondeterministically.     *)
(***************************************************************************)
EXTENDS Integers, Sequences, FiniteSets, TLC

\* ------------------------------------------------------------- bounds
\* Commands (process_command calls and direct client calls) started in a run.
MaxCommands == 2
\* The clock starts here (seconds since the epoch) and stops at MaxTime.
StartTime == 600
MaxTime == 2400
\* The clock advances in steps of TickStep seconds.
TickStep == 300
\* Lifetime of a token the credential provider issues, in seconds.
TokenLifetime == 900

\* ------------------------------------------------- program constants
\* timedelta(seconds=token_response.expires_on - 300)
SafetyMargin == 300
\* self.token = None, self.token_expires = None
NoToken == 0
NoExpiry == -1

Threads == {"t1", "t2"}

\* --------------------------------------------------------- JSON values
\* A decoded JSON value: t is its type, s a string's text, l a list's items.
JAbsent == [t |-> "absent", s |-> "", l |-> <<>>]
JNull == [t |-> "null", s |-> "", l |-> <<>>]
JNum == [t |-> "num", s |-> "7", l |-> <<>>]
JStr(x) == [t |-> "str", s |-> x, l |-> <<>>]
JList(x) == [t |-> "list", s |-> "", l |-> x]

\* Python truthiness of a decoded value.
Truthy(j) ==
    CASE j.t = "str" -> j.s # ""
      [] j.t = "list" -> Len(j.l) > 0
      [] j.t = "num" -> TRUE
      [] OTHER -> FALSE

\* dict.get(key, default): the default only when the key is absent.
DictGet(d, key, default) == IF d[key].t = "absent" THEN default ELSE d[key]

\* A permission name is the sequence of its dot-separated segments.
SitesReadAll == <<"Sites", "Read", "All">>
UserRead == <<"User", "Read">>
DirectoryReadAll == <<"Directory", "Read", "All">>
BogusAll == <<"Bogus", "All">>
OpenId == <<"openid">>

Dict(a, n, p, d) == [action |-> a, appName |-> n, permissions |-> p, description |-> d]
NoDict == Dict(JAbsent, JAbsent, JAbsent, JAbsent)

\* Identifiers the identity provider hands out, by kind.
Id(kind, n) == <<kind, n>>
NoId == <<"none", 0>>

\* requiredResourceAccess: a sequence of [resourceAppId, resourceAccess],
\* resourceAccess a sequence of [id, type].
GraphApiId == "00000003-0000-0000-c000-000000000000"
SharePointApiId == "00000003-0000-0ff1-ce00-000000000000"

\* The Graph service principal's permission catalog.
GraphCatalog ==
    [appRoles |-> << [value |-> SitesReadAll, id |-> "role-sites-read-all"],
                     [value |-> DirectoryReadAll, id |-> "role-directory-read-all"] >>,
     oauth2PermissionScopes |->
                  << [value |-> UserRead, id |-> "scope-user-read"],
                     [value |-> DirectoryReadAll, id |-> "scope-directory-read-all"],
                     [value |-> OpenId, id |-> "scope-openid"] >>]


\* ------------------------------------------------- the permission merge
\* next(ra for ra in required_access if ra["resourceAppId"] == graph_api_id):
\* the index of the first Microsoft Graph entry, 0 when there is none.
GraphIndex(required_access) ==
    LET hits == {i \in 1..Len(required_access) :
                    required_access[i].resourceAppId = GraphApiId}
    IN  IF hits = {} THEN 0 ELSE CHOOSE i \in hits : \A j \in hits : i <= j

\* A merge that starts the Microsoft Graph entry afresh.
WithGraphEntryReset(required_access) ==
    IF GraphIndex(required_access) = 0
    THEN Append(required_access, [resourceAppId |-> GraphApiId, resourceAccess |-> <<>>])
    ELSE [required_access EXCEPT ![GraphIndex(required_access)].resourceAccess = <<>>]

\* if graph_access not in required_access: required_access.append(graph_access)
WithGraphEntry(required_access) ==
    IF GraphIndex(required_access) = 0
    THEN Append(required_access, [resourceAppId |-> GraphApiId, resourceAccess |-> <<>>])
    ELSE required_access

\* "Application" unless the name has a dot and its last segment is not "All".
PermissionType(permission) ==
    IF Len(permission) > 1
    THEN IF permission[Len(permission)] = "All" THEN "Application" ELSE "Delegated"
    ELSE "Application"

\* next((p for p in defs if p["value"] == permission), None): 0 for None.
FindDef(defs, permission) ==
    LET hits == {i \in 1..Len(defs) : defs[i].value = permission}
    IN  IF hits = {} THEN 0 ELSE CHOOSE i \in hits : \A j \in hits : i <= j

CatalogFor(catalog, permission_type) ==
    IF permission_type = "Application" THEN catalog.appRoles
    ELSE catalog.oauth2PermissionScopes

\* The loop body without the "already in the list" check of line 204.
AddPermissionUnchecked(resourceAccess, catalog, permission) ==
    LET ptype == PermissionType(permission)
        defs == CatalogFor(catalog, ptype)
        k == FindDef(defs, permission)
    IN  IF k = 0 THEN resourceAccess
        ELSE Append(resourceAccess,
                    [id |-> defs[k].id,
                     type |-> IF ptype = "Application" THEN "Role" ELSE "Scope"])

\* One pass of the loop body for one permission.
AddPermission(resourceAccess, catalog, permission) ==
    LET ptype == PermissionType(permission)
        defs == CatalogFor(catalog, ptype)
        k == FindDef(defs, permission)
    IN  IF k = 0 THEN resourceAccess
        ELSE IF \E i \in 1..Len(resourceAccess) : resourceAccess[i].id = defs[k].id
             THEN resourceAccess
             ELSE Append(resourceAccess,
                         [id |-> defs[k].id,
                          type |-> IF ptype = "Application" THEN "Role" ELSE "Scope"])

\* A loop that stops at the first name it cannot resolve (break for continue).
RECURSIVE AddPermissionsStopAtUnknown(_, _, _)
AddPermissionsStopAtUnknown(resourceAccess, catalog, permissions) ==
    IF permissions = <<>> THEN resourceAccess
    ELSE IF FindDef(CatalogFor(catalog, PermissionType(Head(permissions))),
                    Head(permissions)) = 0
    THEN resourceAccess
    ELSE AddPermissionsStopAtUnknown(
             AddPermission(resourceAccess, catalog, Head(permissions)),
             catalog, Tail(permissions))

\* for permission in permissions: (lines 171-208)
RECURSIVE AddPermissions(_, _, _)
AddPermissions(resourceAccess, catalog, permissions) ==
    IF permissions = <<>> THEN resourceAccess
    ELSE AddPermissions(AddPermission(resourceAccess, catalog, Head(permissions)),
                        catalog, Tail(permissions))

\* Line 196: one warning for every name the lookup does not find.
RECURSIVE Warnings(_, _)
Warnings(catalog, permissions) ==
    IF permissions = <<>> THEN <<>>
    ELSE (IF FindDef(CatalogFor(catalog, PermissionType(Head(permissions))),
                     Head(permissions)) = 0
          THEN <<[stmt |-> "graph_service:196", vals |-> {}]>> ELSE <<>>)
         \o Warnings(catalog, Tail(permissions))

\* An update that carries the Microsoft Graph entry alone.
MergePermissionsGraphOnly(required_access, catalog, permissions) ==
    LET ra == WithGraphEntry(required_access)
        g == GraphIndex(ra)
    IN  <<[ra[g] EXCEPT !.resourceAccess = AddPermissions(@, catalog, permissions)]>>

\* The requiredResourceAccess the PATCH carries.
MergePermissions(required_access, catalog, permissions) ==
    LET ra == WithGraphEntry(required_access)
        g == GraphIndex(ra)
    IN  [ra EXCEPT ![g].resourceAccess = AddPermissions(@, catalog, permissions)]

\* ------------------------------------------------------------ the parser
\* The reply's text is a sequence of pieces: prose and code-fence markers
\* (text without braces), the text of one well-formed JSON object (it starts
\* with '{' and ends with '}'), a brace on its own, or a JSON document that is
\* no object (a list, a number, null: text without braces).
Prose == [k |-> "prose", d |-> NoDict]
Fence == [k |-> "fence", d |-> NoDict]
Obj(d) == [k |-> "obj", d |-> d]
OpenBrace == [k |-> "open", d |-> NoDict]
CloseBrace == [k |-> "close", d |-> NoDict]
Doc == [k |-> "doc", d |-> NoDict]

\* What the language model may answer: the call raises, or the reply holds
\* no decodable JSON, or it is the text of a JSON value (a dict or not).
Reply(raises, decodes, isDict, d) ==
    [raises |-> raises,
     text |-> IF ~decodes THEN <<Prose>> ELSE IF isDict THEN <<Obj(d)>> ELSE <<Doc>>]

\* A reply with the given text.
TextReply(text) == [raises |-> FALSE, text |-> text]
NoReply == [raises |-> FALSE, text |-> <<>>]

CreateAction == JStr("create_app_registration")
UpdateAction == JStr("update_app_registration")
DeleteAction == JStr("delete_app_registration")

IsAction(j, name) == j.t = "str" /\ j.s = name

ModelDicts ==
    { Dict(CreateAction, JStr("Foo"), JList(<<SitesReadAll>>), JStr("desc")),
      Dict(CreateAction, JStr("Foo"), JAbsent, JAbsent),
      Dict(CreateAction, JStr("Foo"), JList(<<>>), JAbsent),
      Dict(CreateAction, JStr("Foo"), JNull, JAbsent),
      Dict(CreateAction, JStr("Foo"), JList(<<UserRead, BogusAll>>), JAbsent),
      Dict(CreateAction, JStr("Foo"), JNum, JAbsent),
      Dict(CreateAction, JStr(""), JAbsent, JAbsent),
      Dict(CreateAction, JNull, JAbsent, JAbsent),
      Dict(CreateAction, JAbsent, JList(<<SitesReadAll>>), JAbsent),
      Dict(JAbsent, JStr("Foo"), JAbsent, JAbsent),
      Dict(UpdateAction, JStr("Foo"), JList(<<SitesReadAll>>), JAbsent),
      Dict(DeleteAction, JAbsent, JAbsent, JAbsent),
      Dict(JStr("list_apps"), JAbsent, JAbsent, JAbsent),
      Dict(JNull, JAbsent, JAbsent, JAbsent) }

ModelReplies ==
    { Reply(TRUE, FALSE, FALSE, NoDict), Reply(FALSE, FALSE, FALSE, NoDict),
      Reply(FALSE, TRUE, FALSE, NoDict) }
    \cup { Reply(FALSE, TRUE, TRUE, d) : d \in ModelDicts }

\* Replies that wrap their JSON, or hold no single JSON object.
WrappedReplies ==
    { TextReply(<<Prose, Obj(Dict(CreateAction, JStr("Foo"), JAbsent, JAbsent)), Prose>>),
      TextReply(<<Fence, Obj(Dict(UpdateAction, JStr("Foo"), JAbsent, JAbsent)), Fence>>),
      TextReply(<<Prose, Fence, Obj(Dict(CreateAction, JAbsent, JAbsent, JStr("desc"))),
                  Fence>>),
      TextReply(<<Obj(Dict(DeleteAction, JAbsent, JAbsent, JAbsent)), Prose,
                  Obj(Dict(UpdateAction, JStr("Foo"), JAbsent, JAbsent))>>),
      TextReply(<<Prose, OpenBrace, Prose>>),
      TextReply(<<CloseBrace, Prose, OpenBrace>>),
      TextReply(<<Prose, Doc>>) }

\* parsed_response.find('{'): the first piece with a '{', 0 for not found.
json_start(text) ==
    LET hits == {i \in 1..Len(text) : text[i].k \in {"obj", "open"}}
    IN  IF hits = {} THEN 0 ELSE CHOOSE i \in hits : \A j \in hits : i <= j

\* parsed_response.rfind('}'): the last piece with a '}', 0 for not found.
json_end(text) ==
    LET hits == {i \in 1..Len(text) : text[i].k \in {"obj", "close"}}
    IN  IF hits = {} THEN 0 ELSE CHOOSE i \in hits : \A j \in hits : i >= j

\* if json_start >= 0 and json_end > json_start: a '{' was found and the
\* last '}' comes after it.
HasBraceSpan(text) ==
    json_start(text) # 0 /\ json_end(text) # 0 /\ json_end(text) >= json_start(text)

NoDecoded == [ok |-> FALSE, isDict |-> FALSE, d |-> NoDict, branch |-> "none"]

\* json.loads: the text decodes when it is one JSON document and nothing else.
json_loads(text, branch) ==
    IF Len(text) = 1 /\ text[1].k = "obj"
    THEN [ok |-> TRUE, isDict |-> TRUE, d |-> text[1].d, branch |-> branch]
    ELSE IF Len(text) = 1 /\ text[1].k = "doc"
    THEN [ok |-> TRUE, isDict |-> FALSE, d |-> NoDict, branch |-> branch]
    ELSE [ok |-> FALSE, isDict |-> FALSE, d |-> NoDict, branch |-> branch]

\* An extraction that only ever decodes the whole reply.
ExtractWholeOnly(text) == json_loads(text, "whole")

\* Lines 57-65: decode the brace span, or else the whole reply.
Extract(text) ==
    IF HasBraceSpan(text)
    THEN json_loads(SubSeq(text, json_start(text), json_end(text)), "span")
    ELSE json_loads(text, "whole")

\* A validation that asks for the action only.
ValidateActionOnly(isDict, data) == isDict /\ data.action.t # "absent"

_validate_parsed_data(isDict, data) ==
    IF ~isDict THEN FALSE
    ELSE IF data.action.t = "absent" THEN FALSE
    ELSE IF IsAction(data.action, "create_app_registration")
              /\ data.appName.t = "absent" THEN FALSE
    ELSE TRUE

\* parse_command's result: none (None) or the validated dict.
parse_command(reply) ==
    LET decoded == Extract(reply.text)
    IN  IF reply.raises \/ ~decoded.ok
              \/ ~_validate_parsed_data(decoded.isDict, decoded.d)
        THEN [none |-> TRUE, d |-> NoDict]
        ELSE [none |-> FALSE, d |-> decoded.d]


\* ------------------------------------------------------------- the state
VARIABLES
    pc,          \* per thread: where it is in process_command / a direct call
    rpc,         \* per thread: where it is in _make_request / _get_token
    parsed,      \* per thread: parse_command's result, with the reply it
                 \* was given and what the reply decoded to (history)
    loc,         \* per thread: the local variables of the running methods
    calls,       \* per thread: the HTTP requests this command has sent (history)
    req,         \* per thread: what the running _get_token saw and did (history)
    raised,      \* per thread: the exceptions raised in this command (history)
    env,         \* per thread: what the command returned
    fetches,     \* per thread: token fetches this command caused (history)
    modelCalls,  \* per thread: completion calls this command made (history)
    cache,       \* GraphService.token, GraphService.token_expires
    expSrc,      \* the provider response token_expires was computed from (history)
    issued,      \* expires_on of every token the credential provider issued
    now,         \* the clock, seconds since the epoch
    nextId,      \* the identity provider's id counter
    applications,       \* the applications: [id, appId, requiredResourceAccess]
    passwords,          \* the secrets created: <<objectId, secretId>>
    servicePrincipals,  \* the service principals created: <<appId, spId>>
    patched,     \* the PATCHes that succeeded: what was asked, read and sent (history)
    cmdCount,    \* commands started so far
    logs,        \* per thread: the log records this command wrote (history)
    surface,     \* the delivery surface the requests come through
    agent,       \* entra_agent: constructed ("ok") or not ("none")
    out          \* per thread: what the delivery surface answered

threadVars == <<pc, rpc, parsed, loc, calls, req, raised, env, fetches, modelCalls,
                logs>>
surfaceVars == <<surface, agent, out>>
tokenVars == <<cache, expSrc, issued>>
storeVars == <<nextId, applications, passwords, servicePrincipals, patched>>
vars == <<threadVars, tokenVars, storeVars, now, cmdCount, surfaceVars>>

\* The steps of _create_app_registration's try block.
CreatePcs == {"create_app", "create_secret", "perms_get_app", "perms_get_catalog",
              "perms_patch", "create_sp"}
\* The steps that are a _make_request: those, and grant_admin_consent's.
RequestPcs == CreatePcs \cup {"grant"}

NoData == [applicationId |-> NoId, objectId |-> NoId,
           servicePrincipalId |-> NoId, clientSecret |-> NoId]
NoEnv == [returned |-> FALSE, escaped |-> FALSE, success |-> FALSE,
          message |-> <<"", "">>, hasData |-> FALSE, data |-> NoData,
          nextSteps |-> <<>>]
NoLoc == [app_name |-> JAbsent, permissions |-> JAbsent, description |-> JAbsent,
          app_id |-> NoId, app_client_id |-> NoId, client_secret |-> NoId,
          secret_id |-> NoId, sp_id |-> NoId, target |-> NoId,
          app_rra |-> <<>>, update_data |-> <<>>,
          tok_resp |-> NoToken, bearer |-> NoToken, direct |-> FALSE,
          method |-> "", permission_ids |-> <<>>, grant_i |-> 0]
NoReq == [checkNow |-> NoExpiry, cachedTok |-> NoToken, cachedExp |-> NoExpiry,
          fetched |-> 0]
NoParse == [none |-> TRUE, d |-> NoDict, reply |-> NoReply, decoded |-> NoDecoded]

Err(cls, msg) == [cls |-> cls, msg |-> msg]

\* A log record (logger.info, logger.error or print): the statement that
\* wrote it and the identifiers its text carries.
Rec(stmt, vals) == [stmt |-> stmt, vals |-> vals]

\* What a delivery surface answered: nothing yet; or an envelope as JSON with
\* an HTTP status; or printed text with an exit code.
NoOut == [kind |-> "none", status |-> 0, body |-> NoEnv, text |-> "",
          shown |-> NoData]

InitThreads ==
    /\ pc = [t \in Threads |-> "idle"]
    /\ rpc = [t \in Threads |-> "none"]
    /\ parsed = [t \in Threads |-> NoParse]
    /\ loc = [t \in Threads |-> NoLoc]
    /\ calls = [t \in Threads |-> <<>>]
    /\ req = [t \in Threads |-> NoReq]
    /\ raised = [t \in Threads |-> <<>>]
    /\ env = [t \in Threads |-> NoEnv]
    /\ fetches = [t \in Threads |-> 0]
    /\ modelCalls = [t \in Threads |-> 0]
    /\ logs = [t \in Threads |-> <<>>]
    /\ out = [t \in Threads |-> NoOut]

\* process_command is called on an agent that was constructed.
InitAgent ==
    /\ surface = "none"
    /\ agent = "ok"

\* GraphService.__init__: no token cached.
InitToken ==
    /\ cache = [token |-> NoToken, expires |-> NoExpiry]
    /\ expSrc = NoToken
    /\ issued = <<>>

Init ==
    /\ InitThreads
    /\ InitAgent
    /\ InitToken
    /\ now = StartTime
    /\ nextId = 1
    /\ applications = {}
    /\ passwords = {}
    /\ servicePrincipals = {}
    /\ patched = <<>>
    /\ cmdCount = 0

\* ------------------------------------------------------ control transfer
\* Handlers that catch request errors only (except RequestException).
CatchesRequestErrorsOnly(handler, cls) == cls = "RequestException"

\* except Exception as e: every exception class the environment can raise
\* derives from Exception.
Catches(handler, cls) == TRUE

FailureEnvelope(text, detail) ==
    [NoEnv EXCEPT !.returned = TRUE, !.message = <<text, detail>>]

\* Go on to the step p; a step that is a remote call enters _make_request.
Goto(t, p) ==
    /\ pc' = [pc EXCEPT ![t] = p]
    /\ rpc' = [rpc EXCEPT ![t] = IF p \in RequestPcs THEN "check" ELSE "none"]
    /\ UNCHANGED <<env, raised>>

\* The command returns the envelope e.
Return(t, e) ==
    /\ pc' = [pc EXCEPT ![t] = "done"]
    /\ rpc' = [rpc EXCEPT ![t] = "none"]
    /\ env' = [env EXCEPT ![t] = e]
    /\ UNCHANGED raised

\* A handler that reports a failure and drops the exception's message.
HandlerEnvelopeNoDetail(t, e) ==
    IF ~loc[t].direct
    THEN FailureEnvelope("Error creating app registration", "")
    ELSE [NoEnv EXCEPT !.escaped = TRUE]

\* A grant loop that reports True although a grant failed.
GrantFailedReportsTrue == [NoEnv EXCEPT !.returned = TRUE, !.success = TRUE]

\* grant_admin_consent, lines 255-257: return False.
GrantFailed == [NoEnv EXCEPT !.returned = TRUE, !.success = FALSE]

\* What the handlers around the raising step return for the exception e:
\* grant_admin_consent's own (line 255) inside its loop;
\* _create_app_registration's (line 138) when the step is inside its try,
\* else process_command's (line 74); a direct call of another GraphService
\* method has no handler and the exception reaches the caller.
HandlerEnvelope(t, e) ==
    IF pc[t] = "grant" /\ Catches("grant", e.cls) THEN GrantFailed
    ELSE IF ~loc[t].direct /\ pc[t] \in CreatePcs /\ Catches("create", e.cls)
    THEN FailureEnvelope("Error creating app registration: ", e.msg)
    ELSE IF ~loc[t].direct /\ Catches("process", e.cls)
    THEN FailureEnvelope("Error processing command: ", e.msg)
    ELSE [NoEnv EXCEPT !.escaped = TRUE]

\* A handler that deletes the application the failed run created.
HandlerRollsBack(t, apps) ==
    IF loc[t].direct THEN apps ELSE {a \in apps : a.id # loc[t].app_id}

\* What the handler of lines 138-143 does to the provider's applications
\* when a step has failed: it logs and returns, and sends nothing.
HandlerRemoteEffect(t, apps) == apps

WriteLogs(t, records) == logs' = [logs EXCEPT ![t] = @ \o records]

\* _make_request's except clause (lines 64-69) prints a request error, its
\* status and the response text, and re-raises.
RequestErrorPrints(e) ==
    IF e.cls = "RequestException"
    THEN <<Rec("graph_service:65", {}), Rec("graph_service:67-68", {})>>
    ELSE <<>>

\* The handler that catches the exception logs it (lines 139 and 75).
HandlerLogs(t, e) ==
    IF pc[t] = "grant" THEN <<Rec("graph_service:256", {})>>
    ELSE IF loc[t].direct THEN <<>>
    ELSE IF pc[t] \in CreatePcs THEN <<Rec("app_orchestrator:139", {})>>
    ELSE <<Rec("app_orchestrator:75", {})>>

\* The step wrote the records, then raised e.
RaiseAfter(t, e, records) ==
    /\ pc' = [pc EXCEPT ![t] = "done"]
    /\ rpc' = [rpc EXCEPT ![t] = "none"]
    /\ raised' = [raised EXCEPT ![t] =
                    Append(@, [cls |-> e.cls, msg |-> e.msg, step |-> pc[t]])]
    /\ env' = [env EXCEPT ![t] = HandlerEnvelope(t, e)]
    /\ WriteLogs(t, records \o RequestErrorPrints(e) \o HandlerLogs(t, e))

Raise(t, e) == RaiseAfter(t, e, <<>>)


SetLoc(t, l) == loc' = [loc EXCEPT ![t] = l]

\* What a response carried: the created resource's id and its second
\* identifier (an application's appId, a secret's secretText).
Res(id, value) == [id |-> id, value |-> value]
NoRes == Res(NoId, NoId)

\* One more HTTP request in the command's history.
Log(t, op, arg, ok, res) ==
    calls' = [calls EXCEPT ![t] =
                Append(@, [op |-> op, arg |-> arg, ok |-> ok, res |-> res,
                           bearer |-> loc[t].bearer])]

\* ----------------------------------------------------------- _get_token
\* A cache check that never looks at the expiry.
TokenValidIgnoringExpiry(c, time) == c.token # NoToken

\* if self.token and self.token_expires and datetime.now() < self.token_expires
TokenValid(c, time) ==
    c.token # NoToken /\ c.expires # NoExpiry /\ time < c.expires

\* datetime.now() + timedelta(seconds=token_response.expires_on - 300)
CachedExpiry(time, expires_on) == time + (expires_on - SafetyMargin)

\* Line 18: the cache is read and the branch is taken.
GetTokenCheck(t) ==
    /\ rpc[t] = "check"
    /\ rpc' = [rpc EXCEPT ![t] = IF TokenValid(cache, now) THEN "return" ELSE "fetch"]
    /\ req' = [req EXCEPT ![t] = [checkNow |-> now, cachedTok |-> cache.token,
                                  cachedExp |-> cache.expires, fetched |-> 0]]
    /\ UNCHANGED <<pc, parsed, loc, calls, raised, env, fetches, modelCalls,
                   tokenVars, storeVars, now, cmdCount,
                   logs, surfaceVars>>

\* Line 22: self.credential.get_token(...) answers with a new token whose
\* expires_on is its expiry in seconds since the epoch, or raises.
GetTokenFetch(t) ==
    /\ rpc[t] = "fetch"
    /\ fetches' = [fetches EXCEPT ![t] = @ + 1]
    /\ req' = [req EXCEPT ![t].fetched = @ + 1]
    /\ \/ /\ issued' = Append(issued, now + TokenLifetime)
          /\ SetLoc(t, [loc[t] EXCEPT !.tok_resp = Len(issued) + 1])
          /\ rpc' = [rpc EXCEPT ![t] = "store_token"]
          /\ UNCHANGED <<pc, raised, env, applications, logs>>
       \/ /\ Raise(t, Err("ClientAuthenticationError", "authentication failed"))
          /\ applications' = HandlerRemoteEffect(t, applications)
          /\ UNCHANGED <<issued, loc>>
    /\ UNCHANGED <<parsed, calls, modelCalls, cache, expSrc, now, cmdCount,
                   nextId, passwords, servicePrincipals, patched, surfaceVars>>

\* A store that keeps the token already cached (first write wins).
StoreTokenIfAbsent(t) ==
    /\ rpc[t] = "store_token"
    /\ cache' = IF cache.token = NoToken
                THEN [cache EXCEPT !.token = loc[t].tok_resp] ELSE cache
    /\ rpc' = [rpc EXCEPT ![t] = "store_expiry"]
    /\ UNCHANGED <<pc, parsed, loc, calls, req, raised, env, fetches, modelCalls,
                   expSrc, issued, storeVars, now, cmdCount,
                   logs, surfaceVars>>

\* Line 23: self.token = token_response.token
StoreToken(t) ==
    /\ rpc[t] = "store_token"
    /\ cache' = [cache EXCEPT !.token = loc[t].tok_resp]
    /\ rpc' = [rpc EXCEPT ![t] = "store_expiry"]
    /\ UNCHANGED <<pc, parsed, loc, calls, req, raised, env, fetches, modelCalls,
                   expSrc, issued, storeVars, now, cmdCount,
                   logs, surfaceVars>>

\* Line 25: self.token_expires = ...
StoreExpiry(t) ==
    /\ rpc[t] = "store_expiry"
    /\ cache' = [cache EXCEPT !.expires = CachedExpiry(now, issued[loc[t].tok_resp])]
    /\ expSrc' = loc[t].tok_resp
    /\ rpc' = [rpc EXCEPT ![t] = "return"]
    /\ UNCHANGED <<pc, parsed, loc, calls, req, raised, env, fetches, modelCalls,
                   issued, storeVars, now, cmdCount,
                   logs, surfaceVars>>

\* Lines 19 and 27: return self.token, which goes into the bearer header.
ReturnToken(t) ==
    /\ rpc[t] = "return"
    /\ SetLoc(t, [loc[t] EXCEPT !.bearer = cache.token])
    /\ rpc' = [rpc EXCEPT ![t] = "send"]
    /\ UNCHANGED <<pc, parsed, calls, req, raised, env, fetches, modelCalls,
                   tokenVars, storeVars, now, cmdCount,
                   logs, surfaceVars>>

\* The identity provider accepts a bearer token until its expires_on.
TokenAccepted(tok) == tok # NoToken /\ now < issued[tok]

RequestError(op) == Err("RequestException", op)


\* -------------------------------------------- the HTTP requests (line 49)
Sending(t, p) == pc[t] = p /\ rpc[t] = "send"
SendFrame ==
    UNCHANGED <<parsed, req, fetches, modelCalls, tokenVars, now, cmdCount, surfaceVars>>

AppWithId(id) == {a \in applications : a.id = id}
AppWithAppId(appId) == {a \in applications : a.appId = appId}

\* A plan that always takes the permission step.
PlanNextAlwaysPermissions(p, l) ==
    CASE p = "create_app" -> "create_secret"
      [] p = "create_secret" -> "perms_get_app"
      [] p = "perms_patch" -> "create_sp"

\* A plan that sends the secret request again after it has returned.
PlanNextResendsSecret(p, l) ==
    CASE p = "create_app" -> "create_secret"
      [] p = "create_secret" -> "create_secret"
      [] p = "perms_patch" -> "create_sp"

\* _create_app_registration's plan: the step that follows the step p once p
\* has returned (lines 97, 104, 111-113 with add_required_permissions' own
\* line 136, 117).
PlanNext(p, l) ==
    CASE p = "create_app" -> "create_secret"
      [] p = "create_secret" ->
            IF Truthy(l.permissions) THEN "perms_get_app" ELSE "create_sp"
      [] p = "perms_patch" -> "create_sp"

\* The objectId kept in a field of the shared agent: the one created last,
\* by whichever request.
SecretArgLastCreated(l) == Id("obj", nextId - 1)
\* create_client_secret(app_id) and add_required_permissions(app_id, ...)
SecretArg(l) == l.app_id
\* A log statement that writes the secret's text.
SecretLogValueText(l) == l.client_secret
\* Line 108: logger.info(f"Client secret created. ID: {secret_id}")
SecretLogValue(l) == l.secret_id
\* The service principal bound to the objectId instead of the appId.
PrincipalArgObjectId(l) == l.app_id
\* create_service_principal(app_client_id)
PrincipalArg(l) == l.app_client_id

\* The envelope with applicationId and objectId taken from each other's value.
SuccessEnvelopeSwapped(l) ==
    [returned |-> TRUE, escaped |-> FALSE, success |-> TRUE,
     message |-> <<"App registration created successfully: ", l.app_name.s>>,
     hasData |-> TRUE,
     data |-> [applicationId |-> l.app_id, objectId |-> l.app_client_id,
               servicePrincipalId |-> l.sp_id, clientSecret |-> l.client_secret],
     nextSteps |-> <<"Store the client secret securely (it won't be shown again).",
                     "Admin consent may be required for application permissions.">>]

\* The envelope of lines 123-136.
SuccessEnvelope(l) ==
    [returned |-> TRUE, escaped |-> FALSE, success |-> TRUE,
     message |-> <<"App registration created successfully: ", l.app_name.s>>,
     hasData |-> TRUE,
     data |-> [applicationId |-> l.app_client_id, objectId |-> l.app_id,
               servicePrincipalId |-> l.sp_id, clientSecret |-> l.client_secret],
     nextSteps |-> <<"Store the client secret securely (it won't be shown again).",
                     "Admin consent may be required for application permissions.">>]

\* add_required_permissions returned True to a direct caller.
DirectResult == [NoEnv EXCEPT !.returned = TRUE, !.success = TRUE]

\* create_app_registration: POST /applications, then app['id'], app['appId'].
CreateApplication(t) ==
    /\ Sending(t, "create_app")
    /\ LET created == [id |-> Id("obj", nextId), appId |-> Id("app", nextId),
                       requiredResourceAccess |-> <<>>]
       IN \/ /\ TokenAccepted(loc[t].bearer)
             /\ nextId' = nextId + 1
             /\ Log(t, "POST /applications", NoId, TRUE, Res(created.id, created.appId))
             /\ \/ /\ SetLoc(t, [loc[t] EXCEPT !.app_id = created.id,
                                               !.app_client_id = created.appId])
                   /\ applications' = applications \cup {created}
                   /\ WriteLogs(t, <<Rec("app_orchestrator:101",
                                          {created.id, created.appId})>>)
                   /\ Goto(t, PlanNext("create_app", loc[t]))
                \/ /\ Raise(t, Err("KeyError", "'id'"))
                   /\ applications' = HandlerRemoteEffect(t, applications \cup {created})
                   /\ UNCHANGED loc
          \/ /\ Log(t, "POST /applications", NoId, FALSE, NoRes)
             /\ Raise(t, RequestError("POST /applications"))
             /\ applications' = HandlerRemoteEffect(t, applications)
             /\ UNCHANGED <<loc, nextId>>
    /\ UNCHANGED <<passwords, servicePrincipals, patched>>
    /\ SendFrame

\* create_client_secret(app_id): POST /applications/{app_id}/addPassword,
\* then secret_result['secretText'], secret_result['id'].
CreateClientSecret(t) ==
    /\ Sending(t, "create_secret")
    /\ \/ /\ TokenAccepted(loc[t].bearer)
          /\ AppWithId(SecretArg(loc[t])) # {}
          /\ passwords' = passwords \cup {<<SecretArg(loc[t]), Id("key", nextId)>>}
          /\ nextId' = nextId + 1
          /\ Log(t, "POST addPassword", SecretArg(loc[t]), TRUE,
                 Res(Id("key", nextId), Id("secret", nextId)))
          /\ \/ /\ SetLoc(t, [loc[t] EXCEPT !.client_secret = Id("secret", nextId),
                                            !.secret_id = Id("key", nextId),
                                            !.target = SecretArg(loc[t])])
                /\ WriteLogs(t,
                      <<Rec("app_orchestrator:108",
                            {SecretLogValue(
                                [loc[t] EXCEPT !.client_secret = Id("secret", nextId),
                                               !.secret_id = Id("key", nextId)])}),
                        IF Truthy(loc[t].permissions) THEN Rec("app_orchestrator:112", {})
                        ELSE Rec("app_orchestrator:116", {})>>)
                /\ Goto(t, PlanNext("create_secret", loc[t]))
                /\ UNCHANGED applications
             \/ /\ Raise(t, Err("KeyError", "'secretText'"))
                /\ applications' = HandlerRemoteEffect(t, applications)
                /\ UNCHANGED loc
       \/ /\ Log(t, "POST addPassword", SecretArg(loc[t]), FALSE, NoRes)
          /\ Raise(t, RequestError("POST addPassword"))
          /\ applications' = HandlerRemoteEffect(t, applications)
          /\ UNCHANGED <<loc, nextId, passwords>>
    /\ UNCHANGED <<servicePrincipals, patched>>
    /\ SendFrame

\* add_required_permissions, line 140: GET /applications/{app_id}.
GetApplication(t) ==
    /\ Sending(t, "perms_get_app")
    /\ \/ /\ TokenAccepted(loc[t].bearer)
          /\ \E a \in AppWithId(loc[t].target) :
                SetLoc(t, [loc[t] EXCEPT !.app_rra = a.requiredResourceAccess])
          /\ Log(t, "GET application", loc[t].target, TRUE, NoRes)
          /\ Goto(t, "perms_get_catalog")
          /\ UNCHANGED <<applications, logs>>
       \/ /\ Log(t, "GET application", loc[t].target, FALSE, NoRes)
          /\ Raise(t, RequestError("GET application"))
          /\ applications' = HandlerRemoteEffect(t, applications)
          /\ UNCHANGED loc
    /\ UNCHANGED <<nextId, passwords, servicePrincipals, patched>>
    /\ SendFrame

\* add_required_permissions, lines 155-213: GET the Graph service principal,
\* take ["value"][0], merge the permissions into requiredResourceAccess.
GetCatalog(t) ==
    /\ Sending(t, "perms_get_catalog")
    /\ \/ /\ TokenAccepted(loc[t].bearer)
          /\ Log(t, "GET catalog", NoId, TRUE, NoRes)
          /\ \/ IF loc[t].permissions.t = "list"
                THEN /\ SetLoc(t, [loc[t] EXCEPT !.update_data =
                            MergePermissions(loc[t].app_rra, GraphCatalog,
                                             loc[t].permissions.l)])
                     /\ WriteLogs(t, Warnings(GraphCatalog, loc[t].permissions.l))
                     /\ Goto(t, "perms_patch")
                     /\ UNCHANGED applications
                ELSE /\ Raise(t, Err("TypeError", "object is not iterable"))
                     /\ applications' = HandlerRemoteEffect(t, applications)
                     /\ UNCHANGED loc
             \/ /\ Raise(t, Err("IndexError", "list index out of range"))
                /\ applications' = HandlerRemoteEffect(t, applications)
                /\ UNCHANGED loc
       \/ /\ Log(t, "GET catalog", NoId, FALSE, NoRes)
          /\ Raise(t, RequestError("GET catalog"))
          /\ applications' = HandlerRemoteEffect(t, applications)
          /\ UNCHANGED loc
    /\ UNCHANGED <<nextId, passwords, servicePrincipals, patched>>
    /\ SendFrame

\* add_required_permissions, line 215: PATCH /applications/{app_id}; then
\* return True, to _create_app_registration (line 116) or to a direct caller.
PatchApplication(t) ==
    /\ Sending(t, "perms_patch")
    /\ \/ /\ TokenAccepted(loc[t].bearer)
          /\ \E a \in AppWithId(loc[t].target) :
                applications' = (applications \ {a}) \cup
                    {[a EXCEPT !.requiredResourceAccess = loc[t].update_data]}
          /\ patched' = Append(patched, [target |-> loc[t].target,
                                         permissions |-> loc[t].permissions.l,
                                         read |-> loc[t].app_rra,
                                         body |-> loc[t].update_data])
          /\ Log(t, "PATCH application", loc[t].target, TRUE, NoRes)
          /\ IF loc[t].direct THEN Return(t, DirectResult) /\ UNCHANGED logs
             ELSE /\ WriteLogs(t, <<Rec("app_orchestrator:116", {})>>)
                  /\ Goto(t, PlanNext("perms_patch", loc[t]))
       \/ /\ Log(t, "PATCH application", loc[t].target, FALSE, NoRes)
          /\ Raise(t, RequestError("PATCH application"))
          /\ applications' = HandlerRemoteEffect(t, applications)
          /\ UNCHANGED patched
    /\ UNCHANGED <<loc, nextId, passwords, servicePrincipals>>
    /\ SendFrame

\* create_service_principal(app_client_id): POST /servicePrincipals, then
\* sp['id'] and the success envelope.
CreateServicePrincipal(t) ==
    /\ Sending(t, "create_sp")
    /\ \/ /\ TokenAccepted(loc[t].bearer)
          /\ AppWithAppId(PrincipalArg(loc[t])) # {}
          /\ servicePrincipals' = servicePrincipals \cup
                 {<<PrincipalArg(loc[t]), Id("sp", nextId)>>}
          /\ nextId' = nextId + 1
          /\ Log(t, "POST /servicePrincipals", PrincipalArg(loc[t]), TRUE,
                 Res(Id("sp", nextId), NoId))
          /\ \/ /\ SetLoc(t, [loc[t] EXCEPT !.sp_id = Id("sp", nextId)])
                /\ WriteLogs(t, <<Rec("app_orchestrator:120", {Id("sp", nextId)})>>)
                /\ Return(t, SuccessEnvelope([loc[t] EXCEPT !.sp_id = Id("sp", nextId)]))
                /\ UNCHANGED applications
             \/ /\ Raise(t, Err("KeyError", "'id'"))
                /\ applications' = HandlerRemoteEffect(t, applications)
                /\ UNCHANGED loc
       \/ /\ Log(t, "POST /servicePrincipals", PrincipalArg(loc[t]), FALSE, NoRes)
          /\ Raise(t, RequestError("POST /servicePrincipals"))
          /\ applications' = HandlerRemoteEffect(t, applications)
          /\ UNCHANGED <<loc, nextId, servicePrincipals>>
    /\ UNCHANGED <<passwords, patched>>
    /\ SendFrame

\* ------------------------------------------------------- process_command
\* process_command is entered: a new command, nothing of it done yet.
StartCommand(t) ==
    /\ pc[t] \in {"idle", "done"}
    /\ cmdCount < MaxCommands
    /\ cmdCount' = cmdCount + 1
    /\ pc' = [pc EXCEPT ![t] = "parse"]
    /\ rpc' = [rpc EXCEPT ![t] = "none"]
    /\ parsed' = [parsed EXCEPT ![t] = NoParse]
    /\ loc' = [loc EXCEPT ![t] = NoLoc]
    /\ calls' = [calls EXCEPT ![t] = <<>>]
    /\ req' = [req EXCEPT ![t] = NoReq]
    /\ raised' = [raised EXCEPT ![t] = <<>>]
    /\ env' = [env EXCEPT ![t] = NoEnv]
    /\ fetches' = [fetches EXCEPT ![t] = 0]
    /\ modelCalls' = [modelCalls EXCEPT ![t] = 0]
    /\ logs' = [logs EXCEPT ![t] = <<Rec("app_orchestrator:36", {})>>]
    /\ UNCHANGED <<storeVars, now>>

\* A caller hands a command to process_command of the constructed agent.
ReceiveCommand(t) == StartCommand(t) /\ UNCHANGED <<tokenVars, surfaceVars>>

\* Line 40: self.openai_service.parse_command(command_text), the language
\* model answering with one of replies.
ParseCommand(t, replies) ==
    /\ pc[t] = "parse"
    /\ \E reply \in replies :
        /\ WriteLogs(t, IF parse_command(reply).none
                        THEN <<Rec("openai_service:77", {})>> ELSE <<>>)
        /\ parsed' = [parsed EXCEPT ![t] =
                        [none |-> parse_command(reply).none,
                         d |-> parse_command(reply).d,
                         reply |-> reply,
                         decoded |-> IF reply.raises THEN NoDecoded
                                     ELSE Extract(reply.text)]]
    /\ modelCalls' = [modelCalls EXCEPT ![t] = @ + 1]
    /\ pc' = [pc EXCEPT ![t] = "dispatch"]
    /\ UNCHANGED <<rpc, loc, calls, req, raised, env, fetches,
                   tokenVars, storeVars, now, cmdCount, surfaceVars>>

\* A dispatch that sends update_app_registration down the create path.
RouteUpdateAsCreate(p) ==
    IF p.none THEN "rephrase"
    ELSE IF p.d.action.t = "absent" THEN "KeyError action"
    ELSE IF IsAction(p.d.action, "create_app_registration")
            \/ IsAction(p.d.action, "update_app_registration")
         THEN IF p.d.appName.t = "absent" THEN "KeyError appName" ELSE "create"
    ELSE IF IsAction(p.d.action, "delete_app_registration") THEN "delete"
    ELSE "unknown"

\* A dispatch without the test of lines 41-45: None is subscripted.
RouteWithoutNoneCheck(p) ==
    IF p.none \/ p.d.action.t = "absent" THEN "KeyError action"
    ELSE IF IsAction(p.d.action, "create_app_registration")
         THEN IF p.d.appName.t = "absent" THEN "KeyError appName" ELSE "create"
    ELSE IF IsAction(p.d.action, "update_app_registration") THEN "update"
    ELSE IF IsAction(p.d.action, "delete_app_registration") THEN "delete"
    ELSE "unknown"

\* Lines 41-72: where process_command goes for parse_command's result p.
Route(p) ==
    IF p.none THEN "rephrase"
    ELSE IF p.d.action.t = "absent" THEN "KeyError action"
    ELSE IF IsAction(p.d.action, "create_app_registration")
         THEN IF p.d.appName.t = "absent" THEN "KeyError appName" ELSE "create"
    ELSE IF IsAction(p.d.action, "update_app_registration") THEN "update"
    ELSE IF IsAction(p.d.action, "delete_app_registration") THEN "delete"
    ELSE "unknown"

\* str(value) in an f-string: a string's text, None for null.
PyStr(j) == IF j.t = "null" THEN "None" ELSE j.s

\* An envelope for an unknown action that does not say which.
UnknownActionEnvelopeAnonymous(action) == FailureEnvelope("Unknown action", "")

\* Lines 69-72: f"Unknown action: {parsed_data['action']}"
UnknownActionEnvelope(action) == FailureEnvelope("Unknown action: ", PyStr(action))

Dispatch(t) ==
    /\ pc[t] = "dispatch"
    /\ LET d == parsed[t].d
           route == Route(parsed[t])
           line47 == <<Rec("app_orchestrator:47", {})>>
       IN CASE route = "rephrase" ->
                 /\ Return(t, FailureEnvelope(
                        "Failed to parse command. Please try rephrasing.", ""))
                 /\ UNCHANGED <<loc, logs>>
            [] route = "KeyError action" ->
                 /\ RaiseAfter(t, Err("KeyError", "'action'"), line47)
                 /\ UNCHANGED loc
            [] route = "KeyError appName" ->
                 /\ RaiseAfter(t, Err("KeyError", "'appName'"), line47)
                 /\ UNCHANGED loc
            [] route = "create" ->
                 /\ SetLoc(t, [loc[t] EXCEPT
                        !.app_name = d.appName,
                        !.permissions = DictGet(d, "permissions", JList(<<>>)),
                        !.description = DictGet(d, "description", JStr(""))])
                 /\ WriteLogs(t, line47 \o <<Rec("app_orchestrator:94", {})>>)
                 /\ Goto(t, "create_app")
            [] route = "update" ->
                 /\ Return(t, FailureEnvelope(
                        "Update app registration not implemented yet", ""))
                 /\ WriteLogs(t, line47)
                 /\ UNCHANGED loc
            [] route = "delete" ->
                 /\ Return(t, FailureEnvelope(
                        "Delete app registration not implemented yet", ""))
                 /\ WriteLogs(t, line47)
                 /\ UNCHANGED loc
            [] OTHER ->
                 /\ Return(t, UnknownActionEnvelope(d.action))
                 /\ WriteLogs(t, line47)
                 /\ UNCHANGED loc
    /\ UNCHANGED <<parsed, calls, req, fetches, modelCalls,
                   tokenVars, storeVars, now, cmdCount, surfaceVars>>

\* Time passes.
Tick ==
    /\ now + TickStep <= MaxTime
    /\ now' = now + TickStep
    /\ UNCHANGED <<threadVars, tokenVars, storeVars, cmdCount, surfaceVars>>

\* The steps of one _make_request.
GetToken(t) ==
    \/ GetTokenCheck(t)
    \/ GetTokenFetch(t)
    \/ StoreToken(t)
    \/ StoreExpiry(t)
    \/ ReturnToken(t)

CreateAppRegistration(t) ==
    \/ CreateApplication(t)
    \/ CreateClientSecret(t)
    \/ GetApplication(t)
    \/ GetCatalog(t)
    \/ PatchApplication(t)
    \/ CreateServicePrincipal(t)

\* One request at a time on one constructed agent.
Next ==
    \/ ReceiveCommand("t1")
    \/ ParseCommand("t1", ModelReplies \cup WrappedReplies)
    \/ Dispatch("t1")
    \/ GetToken("t1")
    \/ CreateAppRegistration("t1")
    \/ Tick

Spec == Init /\ [][Next]_vars


\* What the model answers in the concurrent runs: an application with one
\* permission, or one without.
ConcReplies ==
    { Reply(FALSE, TRUE, TRUE,
            Dict(CreateAction, JStr("Foo"), JList(<<SitesReadAll>>), JStr("desc"))),
      Reply(FALSE, TRUE, TRUE, Dict(CreateAction, JStr("Foo"), JAbsent, JAbsent)) }

\* Concurrent requests on one agent: the embedded web server runs
\* process_command on a thread per request, all sharing entra_agent and its
\* GraphService.  The requests arrive when no token is cached yet, or when
\* the token an earlier request cached at StartTime has reached its cached
\* expiry.
InitConc ==
    /\ InitThreads
    /\ InitAgent
    /\ \/ InitToken /\ now = StartTime
       \/ /\ issued = <<StartTime + TokenLifetime>>
          /\ cache = [token |-> 1,
                      expires |-> CachedExpiry(StartTime, StartTime + TokenLifetime)]
          /\ expSrc = 1
          /\ now = CachedExpiry(StartTime, StartTime + TokenLifetime)
    /\ nextId = 1
    /\ applications = {}
    /\ passwords = {}
    /\ servicePrincipals = {}
    /\ patched = <<>>
    /\ cmdCount = 0

\* The server starts a thread for a request; the thread ends with it.
ServeRequest(t) == pc[t] = "idle" /\ ReceiveCommand(t)

NextConc ==
    \E t \in Threads :
        \/ ServeRequest(t)
        \/ ParseCommand(t, ConcReplies)
        \/ Dispatch(t)
        \/ GetToken(t)
        \/ CreateAppRegistration(t)

SpecConc == InitConc /\ [][NextConc]_vars

\* ------------------------------------- add_required_permissions, called
\* The permission lists a client passes.
PermLists ==
    { <<>>, <<SitesReadAll>>, <<UserRead, UserRead>>, <<SitesReadAll, UserRead>>,
      <<UserRead, BogusAll, SitesReadAll>>, <<DirectoryReadAll>>, <<OpenId>> }

Access(id, type) == [id |-> id, type |-> type]
Resource(api, access) == [resourceAppId |-> api, resourceAccess |-> access]

\* What an application's requiredResourceAccess may hold before the call.
InitialAccess ==
    { <<>>,
      << Resource(SharePointApiId, <<Access("sharepoint-sites-read", "Role")>>) >>,
      << Resource(GraphApiId, <<Access("role-sites-read-all", "Role")>>) >>,
      << Resource(SharePointApiId, <<Access("sharepoint-sites-read", "Role")>>),
         Resource(GraphApiId, <<Access("scope-user-read", "Scope"),
                                Access("scope-directory-read-all", "Scope")>>) >> }

\* One application is registered already.  The calls follow each other
\* within the lifetime of one token: the clock stands still.
InitPerm ==
    /\ InitThreads
    /\ InitAgent
    /\ InitToken
    /\ now = StartTime
    /\ nextId = 2
    /\ \E ra \in InitialAccess :
          applications = {[id |-> Id("obj", 1), appId |-> Id("app", 1),
                           requiredResourceAccess |-> ra]}
    /\ passwords = {}
    /\ servicePrincipals = {}
    /\ patched = <<>>
    /\ cmdCount = 0

\* A client calls graph_service.add_required_permissions(app_id, permissions);
\* lines 136-137 return True at once for an empty list.
CallAddPermissions(t, permissions) ==
    /\ pc[t] \in {"idle", "done"}
    /\ cmdCount < MaxCommands
    /\ cmdCount' = cmdCount + 1
    /\ \E a \in applications :
          loc' = [loc EXCEPT ![t] = [NoLoc EXCEPT !.direct = TRUE, !.target = a.id,
                                                  !.permissions = JList(permissions)]]
    /\ pc' = [pc EXCEPT ![t] = IF permissions = <<>> THEN "done" ELSE "perms_get_app"]
    /\ rpc' = [rpc EXCEPT ![t] = IF permissions = <<>> THEN "none" ELSE "check"]
    /\ env' = [env EXCEPT ![t] = IF permissions = <<>> THEN DirectResult ELSE NoEnv]
    /\ parsed' = [parsed EXCEPT ![t] = NoParse]
    /\ calls' = [calls EXCEPT ![t] = <<>>]
    /\ req' = [req EXCEPT ![t] = NoReq]
    /\ raised' = [raised EXCEPT ![t] = <<>>]
    /\ fetches' = [fetches EXCEPT ![t] = 0]
    /\ modelCalls' = [modelCalls EXCEPT ![t] = 0]
    /\ logs' = [logs EXCEPT ![t] = <<>>]
    /\ UNCHANGED <<tokenVars, storeVars, now, surfaceVars>>

NextPerm ==
    \/ \E permissions \in PermLists : CallAddPermissions("t1", permissions)
    \/ GetToken("t1")
    \/ GetApplication("t1")
    \/ GetCatalog("t1")
    \/ PatchApplication("t1")

SpecPerm == InitPerm /\ [][NextPerm]_vars

\* ----------------------------------------------- grant_admin_consent
\* The permission ids a client asks consent for.
GrantLists ==
    { <<>>, <<Id("perm", 1)>>, <<Id("perm", 1), Id("perm", 2)>>,
      <<Id("perm", 1), Id("perm", 2), Id("perm", 3)>> }

\* A client calls graph_service.grant_admin_consent(service_principal_id,
\* permission_ids); with no ids the loop is not entered and line 259 returns
\* True.
CallGrantAdminConsent(t, permission_ids) ==
    /\ pc[t] \in {"idle", "done"}
    /\ cmdCount < MaxCommands
    /\ cmdCount' = cmdCount + 1
    /\ loc' = [loc EXCEPT ![t] =
                  [NoLoc EXCEPT !.direct = TRUE, !.method = "grant_admin_consent",
                                !.target = Id("sp", 1),
                                !.permission_ids = permission_ids, !.grant_i = 1]]
    /\ pc' = [pc EXCEPT ![t] = IF permission_ids = <<>> THEN "done" ELSE "grant"]
    /\ rpc' = [rpc EXCEPT ![t] = IF permission_ids = <<>> THEN "none" ELSE "check"]
    /\ env' = [env EXCEPT ![t] = IF permission_ids = <<>> THEN DirectResult ELSE NoEnv]
    /\ parsed' = [parsed EXCEPT ![t] = NoParse]
    /\ calls' = [calls EXCEPT ![t] = <<>>]
    /\ req' = [req EXCEPT ![t] = NoReq]
    /\ raised' = [raised EXCEPT ![t] = <<>>]
    /\ fetches' = [fetches EXCEPT ![t] = 0]
    /\ modelCalls' = [modelCalls EXCEPT ![t] = 0]
    /\ logs' = [logs EXCEPT ![t] = <<>>]
    /\ UNCHANGED <<tokenVars, storeVars, now, surfaceVars>>

\* Lines 245-259: POST /oauth2PermissionGrants for the current id; on
\* success the loop goes on to the next id, or returns True after the last;
\* on an exception it prints and returns False.
GrantConsent(t) ==
    /\ Sending(t, "grant")
    /\ LET permission_id == loc[t].permission_ids[loc[t].grant_i]
       IN \/ /\ TokenAccepted(loc[t].bearer)
             /\ Log(t, "POST /oauth2PermissionGrants", permission_id, TRUE, NoRes)
             /\ IF loc[t].grant_i < Len(loc[t].permission_ids)
                THEN /\ SetLoc(t, [loc[t] EXCEPT !.grant_i = @ + 1])
                     /\ Goto(t, "grant")
                ELSE /\ Return(t, DirectResult)
                     /\ UNCHANGED loc
             /\ UNCHANGED logs
          \/ /\ Log(t, "POST /oauth2PermissionGrants", permission_id, FALSE, NoRes)
             /\ Raise(t, RequestError("POST /oauth2PermissionGrants"))
             /\ UNCHANGED loc
    /\ UNCHANGED storeVars
    /\ SendFrame

NextConsent ==
    \/ \E permission_ids \in GrantLists : CallGrantAdminConsent("t1", permission_ids)
    \/ GetToken("t1")
    \/ GrantConsent("t1")
    \/ Tick

SpecConsent == InitPerm /\ [][NextConsent]_vars

\* A client that drives the agent and also calls the Graph client itself:
\* commands with and without permissions, and direct calls of
\* add_required_permissions, one after the other.
ClientReplies ==
    ConcReplies \cup
    { Reply(FALSE, TRUE, TRUE, Dict(CreateAction, JStr("Foo"), JList(<<>>), JAbsent)),
      Reply(FALSE, TRUE, TRUE, Dict(CreateAction, JStr("Foo"), JNull, JAbsent)) }

NextClient ==
    \/ \E permissions \in PermLists : CallAddPermissions("t1", permissions)
    \/ ReceiveCommand("t1")
    \/ ParseCommand("t1", ClientReplies)
    \/ Dispatch("t1")
    \/ GetToken("t1")
    \/ CreateAppRegistration("t1")

SpecClient == InitPerm /\ [][NextClient]_vars

\* ---------------------------------------------------- delivery surfaces
\* cli.py's main, function_app.py's and local_server.py's process_command.
Surfaces == {"cli", "function", "server"}
HttpSurfaces == {"function", "server"}

\* What the surfaces' requests carry: a command, a body without one, or a
\* body that is no JSON object.
Bodies == {"command", "missing", "invalid"}

\* What the model answers when a surface is driven.
SurfaceReplies == ConcReplies \cup {Reply(FALSE, FALSE, FALSE, NoDict)}

\* func.HttpResponse(json.dumps(envelope), status_code=status), and
\* jsonify(envelope), status.
JsonOut(status, envelope) == [NoOut EXCEPT !.kind = "json", !.status = status,
                                           !.body = envelope]

\* print(text) and sys.exit(status).
TextOut(status, text, shown) == [NoOut EXCEPT !.kind = "text", !.status = status,
                                              !.text = text, !.shown = shown]

NotInitializedEnvelope ==
    FailureEnvelope("Agent not initialized. Check logs for details.", "")

\* The configuration is what it is for the whole run: EntraIDAgent() either
\* succeeds whenever it is called, or validate_config fails and it raises
\* ValueError("Invalid configuration").  The HTTP surfaces construct the
\* agent once, when the module is loaded, and keep None on failure.
InitSurface ==
    /\ InitThreads
    /\ InitToken
    /\ surface \in Surfaces
    /\ agent \in {"ok", "none"}
    /\ now = StartTime
    /\ nextId = 1
    /\ applications = {}
    /\ passwords = {}
    /\ servicePrincipals = {}
    /\ patched = <<>>
    /\ cmdCount = 0

\* The thread's last request has been answered (or there was none).
Answered(t) == pc[t] = "idle" \/ out[t].kind # "none"

\* function_app.py lines 24-82 and local_server.py lines 24-63, up to the
\* call of entra_agent.process_command.
HttpRequest(t, body) ==
    /\ surface \in HttpSurfaces
    /\ Answered(t)
    /\ cmdCount < MaxCommands
    /\ IF agent = "none"
       THEN /\ out' = [out EXCEPT ![t] = JsonOut(500, NotInitializedEnvelope)]
            /\ cmdCount' = cmdCount + 1
            /\ UNCHANGED <<threadVars, storeVars, now>>
       ELSE IF body = "invalid"
       THEN /\ out' = [out EXCEPT ![t] =
                         JsonOut(500, FailureEnvelope("Error processing request: ",
                                                      "invalid body"))]
            /\ cmdCount' = cmdCount + 1
            /\ UNCHANGED <<threadVars, storeVars, now>>
       ELSE IF body = "missing"
       THEN /\ out' = [out EXCEPT ![t] =
                         JsonOut(400, FailureEnvelope(
                             "No command provided. Please include a 'command' field in the request body.",
                             ""))]
            /\ cmdCount' = cmdCount + 1
            /\ UNCHANGED <<threadVars, storeVars, now>>
       ELSE /\ StartCommand(t)
            /\ out' = [out EXCEPT ![t] = NoOut]
    /\ UNCHANGED <<tokenVars, surface, agent>>

\* cli.py lines 29-34 and 65-67: a new process constructs its own agent (and
\* with it a GraphService that has no token) and calls process_command; when
\* the constructor raises, the handler prints the error and exits with 1.
CliMain(t) ==
    /\ surface = "cli"
    /\ Answered(t)
    /\ cmdCount < MaxCommands
    /\ IF agent = "none"
       THEN /\ out' = [out EXCEPT ![t] =
                         TextOut(1, "Error: Invalid configuration", NoData)]
            /\ cmdCount' = cmdCount + 1
            /\ UNCHANGED <<threadVars, storeVars, now, tokenVars>>
       ELSE /\ StartCommand(t)
            /\ out' = [out EXCEPT ![t] = NoOut]
            /\ cache' = [token |-> NoToken, expires |-> NoExpiry]
            /\ expSrc' = NoToken
            /\ UNCHANGED issued
    /\ UNCHANGED <<surface, agent>>

\* value[:4] + '*' * (len(value) - 8) + value[-4:]
Masked(secret) == IF secret = NoId THEN NoId ELSE Id("masked", secret[2])

\* The surface answers with what process_command returned: the HTTP
\* surfaces with the envelope as JSON and the status 200 or 400; the command
\* line with the envelope as JSON (--json) or with its message and its data,
\* the client secret masked, and the exit code 0 or 1.
Respond(t) ==
    /\ surface \in Surfaces
    /\ pc[t] = "done"
    /\ out[t].kind = "none"
    /\ IF surface \in HttpSurfaces
       THEN out' = [out EXCEPT ![t] =
                       JsonOut(IF env[t].success THEN 200 ELSE 400, env[t])]
       ELSE \E json \in BOOLEAN :
               out' = [out EXCEPT ![t] =
                   IF json THEN JsonOut(IF env[t].success THEN 0 ELSE 1, env[t])
                   ELSE TextOut(IF env[t].success THEN 0 ELSE 1, env[t].message[1],
                                IF env[t].success /\ env[t].hasData
                                THEN [env[t].data EXCEPT !.clientSecret = Masked(@)]
                                ELSE NoData)]
    /\ UNCHANGED <<threadVars, tokenVars, storeVars, now, cmdCount, surface, agent>>

NextSurface ==
    \/ \E body \in Bodies : HttpRequest("t1", body)
    \/ CliMain("t1")
    \/ ParseCommand("t1", SurfaceReplies)
    \/ Dispatch("t1")
    \/ GetToken("t1")
    \/ CreateAppRegistration("t1")
    \/ Respond("t1")

SpecSurface == InitSurface /\ [][NextSurface]_vars

\* ================================================================ claims
\* A thread is in, or has finished, a run of _create_app_registration.
InCreateRun(t) ==
    /\ ~loc[t].direct
    /\ pc[t] \in CreatePcs \cup {"done"}
    /\ ~parsed[t].none
    /\ IsAction(parsed[t].d.action, "create_app_registration")
    /\ parsed[t].d.appName.t # "absent"

Ops(t) == [i \in 1..Len(calls[t]) |-> calls[t][i].op]

IsPrefix(s, r) == Len(s) <= Len(r) /\ \A i \in 1..Len(s) : s[i] = r[i]

\* The plan's requests, with or without the permission step.
PlanOps(withPermissions) ==
    <<"POST /applications", "POST addPassword">>
    \o (IF withPermissions
        THEN <<"GET application", "GET catalog", "PATCH application">>
        ELSE <<>>)
    \o <<"POST /servicePrincipals">>

\* Permissions were requested: a non-empty list (a value that is no list,
\* such as a number, counts as requested when Python takes it for true).
PermissionsRequested(j) ==
    IF j.t = "list" THEN Len(j.l) > 0 ELSE j.t = "num"

OpRank(op) ==
    CASE op = "POST /applications" -> 1
      [] op = "POST addPassword" -> 2
      [] op = "GET application" -> 3
      [] op = "GET catalog" -> 4
      [] op = "PATCH application" -> 5
      [] op = "POST /servicePrincipals" -> 6

StepRank(step) ==
    CASE step = "create_app" -> 1
      [] step = "create_secret" -> 2
      [] step = "perms_get_app" -> 3
      [] step = "perms_get_catalog" -> 4
      [] step = "perms_patch" -> 5
      [] step = "create_sp" -> 6
      [] OTHER -> 0

\* C1: in every run of _create_app_registration the requests are a prefix of
\* create application, create secret, (read application, read catalog, update
\* application: only when permissions were requested), create service
\* principal; every request but the last has returned successfully; the
\* secret and permission requests name the objectId the first request
\* returned and the service-principal request names the appId it returned.
C1_PlanOrder ==
    \A t \in Threads : InCreateRun(t) =>
        /\ IsPrefix(Ops(t), PlanOps(PermissionsRequested(loc[t].permissions)))
        /\ \A i \in 1..Len(calls[t]) :
              /\ i < Len(calls[t]) => calls[t][i].ok
              /\ calls[t][i].op \in {"POST addPassword", "GET application",
                                     "PATCH application"}
                    => /\ calls[t][i].arg = calls[t][1].res.id
                       /\ calls[t][i].arg # NoId
              /\ calls[t][i].op = "POST /servicePrincipals"
                    => /\ calls[t][i].arg = calls[t][1].res.value
                       /\ calls[t][i].arg # NoId

\* A run with permissions that sent all six requests and succeeded.
C1_Witness ==
    \E t \in Threads :
        /\ InCreateRun(t) /\ pc[t] = "done" /\ env[t].success
        /\ Ops(t) = PlanOps(TRUE)

\* C2: once a step of the plan has failed the run is over: nothing of a later
\* step has been requested, the envelope has success = false and its message
\* carries the error's message; a failed secret creation is followed by no
\* permission request and no service-principal request.
C2_FailureAborts ==
    \A t \in Threads : (InCreateRun(t) /\ raised[t] # <<>>) =>
        /\ pc[t] = "done"
        /\ Len(raised[t]) = 1
        /\ env[t].returned /\ ~env[t].success
        /\ env[t].message[2] = raised[t][1].msg
        /\ \A i \in 1..Len(calls[t]) :
              OpRank(calls[t][i].op) <= StepRank(raised[t][1].step)

\* Secret creation failed after the application was created.
C2_Witness ==
    \E t \in Threads :
        /\ InCreateRun(t) /\ raised[t] # <<>>
        /\ raised[t][1].step = "create_secret"
        /\ Len(calls[t]) = 2 /\ calls[t][1].ok /\ ~calls[t][2].ok
        /\ Truthy(loc[t].permissions)

Last(s) == s[Len(s)]

\* C3: a run in which no step failed returns success = true, with
\* data.applicationId the appId and data.objectId the id that application
\* creation returned, data.servicePrincipalId the id that service-principal
\* creation returned, data.clientSecret the secretText that secret creation
\* returned, and exactly two nextSteps entries.
C3_SuccessEnvelope ==
    \A t \in Threads : (InCreateRun(t) /\ pc[t] = "done") =>
        /\ env[t].success <=> raised[t] = <<>>
        /\ env[t].success =>
              /\ env[t].returned /\ env[t].hasData
              /\ \A i \in 1..Len(calls[t]) : calls[t][i].ok
              /\ env[t].data.applicationId = calls[t][1].res.value
              /\ env[t].data.objectId = calls[t][1].res.id
              /\ env[t].data.clientSecret = calls[t][2].res.value
              /\ Last(calls[t]).op = "POST /servicePrincipals"
              /\ env[t].data.servicePrincipalId = Last(calls[t]).res.id
              /\ NoId \notin {env[t].data.applicationId, env[t].data.objectId,
                              env[t].data.clientSecret, env[t].data.servicePrincipalId}
              /\ Len(env[t].nextSteps) = 2

\* A successful run for ("Foo", ["Sites.Read.All"], "desc").
C3_Witness ==
    \E t \in Threads :
        /\ InCreateRun(t) /\ pc[t] = "done" /\ env[t].success
        /\ loc[t].permissions = JList(<<SitesReadAll>>)
        /\ loc[t].description = JStr("desc")

\* C4: process_command lets no exception escape: whatever the parser and the
\* provider do, it ends by returning an envelope (success a boolean, the
\* message a text).
C4_NoEscape ==
    \A t \in Threads : ~loc[t].direct =>
        /\ ~env[t].escaped
        /\ pc[t] = "done" =>
              /\ env[t].returned
              /\ env[t].success \in BOOLEAN
              /\ Len(env[t].message) = 2
        /\ raised[t] # <<>> => pc[t] = "done"

\* A malformed permissions field, or a response without its keys, raised an
\* exception that is no request error, and an envelope was returned.
C4_Witness ==
    \E t \in Threads :
        /\ ~loc[t].direct /\ pc[t] = "done" /\ env[t].returned
        /\ raised[t] # <<>> /\ raised[t][1].cls = "TypeError"

\* C5: update_app_registration and delete_app_registration return the fixed
\* "not implemented" failure, and the command fetches no token and sends no
\* request.
C5_NotImplemented ==
    \A t \in Threads :
        (/\ ~loc[t].direct /\ ~parsed[t].none
         /\ \/ IsAction(parsed[t].d.action, "update_app_registration")
            \/ IsAction(parsed[t].d.action, "delete_app_registration")) =>
        /\ calls[t] = <<>> /\ fetches[t] = 0 /\ rpc[t] = "none"
        /\ pc[t] \in {"dispatch", "done"}
        /\ pc[t] = "done" =>
              env[t] = FailureEnvelope(
                  IF IsAction(parsed[t].d.action, "update_app_registration")
                  THEN "Update app registration not implemented yet"
                  ELSE "Delete app registration not implemented yet", "")

\* An update command, permissions and all, has been answered.
C5_Witness ==
    \E t \in Threads :
        /\ pc[t] = "done" /\ ~parsed[t].none
        /\ IsAction(parsed[t].d.action, "update_app_registration")
        /\ Truthy(parsed[t].d.permissions)

\* C6: a failed run is not rolled back: its requests are the plan's steps up
\* to the failing one and nothing else, and every application and secret its
\* completed steps created is still with the provider.
C6_NoRollback ==
    \A t \in Threads : (InCreateRun(t) /\ raised[t] # <<>>) =>
        /\ IsPrefix(Ops(t), PlanOps(PermissionsRequested(loc[t].permissions)))
        /\ \A i \in 1..Len(calls[t]) :
              /\ OpRank(calls[t][i].op) <= StepRank(raised[t][1].step)
              /\ (calls[t][i].ok /\ calls[t][i].op = "POST /applications")
                    => \E a \in applications : a.id = calls[t][i].res.id
              /\ (calls[t][i].ok /\ calls[t][i].op = "POST addPassword")
                    => <<calls[t][i].arg, calls[t][i].res.id>> \in passwords

\* The service-principal step failed after the application and its secret
\* were created.
C6_Witness ==
    \E t \in Threads :
        /\ InCreateRun(t) /\ raised[t] # <<>>
        /\ raised[t][1].step = "create_sp"
        /\ calls[t][1].ok /\ calls[t][2].ok
        /\ \E a \in applications : a.id = calls[t][1].res.id

\* C7: a _get_token that found the clock before the cached expiry returned
\* the cached token without a fetch; one that found no token cached, or the
\* clock at or after the cached expiry, fetched exactly once and left the
\* cache holding the fetched token and the expiry computed from that fetch.
C7_TokenCache ==
    \A t \in Threads : rpc[t] = "send" =>
        /\ (req[t].cachedTok # NoToken /\ req[t].checkNow < req[t].cachedExp) =>
              /\ req[t].fetched = 0
              /\ loc[t].bearer = req[t].cachedTok
        /\ (req[t].cachedTok = NoToken \/ req[t].checkNow >= req[t].cachedExp) =>
              /\ req[t].fetched = 1
              /\ loc[t].bearer = loc[t].tok_resp
              /\ cache.token = loc[t].tok_resp
              /\ expSrc = loc[t].tok_resp
              /\ cache.expires # NoExpiry

\* A call after the cached expiry refreshed the token.
C7_Witness ==
    \E t \in Threads :
        /\ rpc[t] = "send"
        /\ req[t].cachedTok # NoToken /\ req[t].checkNow >= req[t].cachedExp
        /\ req[t].fetched = 1 /\ cache.token # req[t].cachedTok

\* C8: no request carries a cached token with less than 300 seconds of
\* validity left: a _get_token that returned the cached token found the
\* clock at least SafetyMargin before that token's expires_on.
C8_SafetyMargin ==
    \A t \in Threads : (rpc[t] = "send" /\ req[t].fetched = 0) =>
        issued[loc[t].bearer] - req[t].checkNow >= SafetyMargin


InGetToken(t) == rpc[t] \in {"check", "fetch", "store_token", "store_expiry", "return"}

\* Both threads are past a fetch of their own in their running _get_token.
BothFetched ==
    \A t \in Threads : rpc[t] \in {"return", "send"} /\ req[t].fetched = 1

\* C9: with two threads on one GraphService, a thread inside _get_token can
\* always take its next step (the race blocks nobody); a _get_token that
\* returns, returns a token the credential provider issued and that is still
\* good; and when both threads have fetched, the cache holds the token of
\* one of the two fetches.
C9_BenignRace ==
    /\ \A t \in Threads :
          /\ InGetToken(t) => ENABLED GetToken(t)
          /\ rpc[t] = "send" =>
                /\ loc[t].bearer \in 1..Len(issued)
                /\ TokenAccepted(loc[t].bearer)
    /\ BothFetched => \E t \in Threads : cache.token = loc[t].tok_resp

\* Both threads found the cached token expired, both fetched, and one of
\* them returned the token the other one fetched.
C9_Witness ==
    /\ BothFetched
    /\ \A t \in Threads : rpc[t] = "send" /\ req[t].cachedTok # NoToken
    /\ \E t \in Threads : loc[t].bearer # loc[t].tok_resp


Range(f) == {f[i] : i \in DOMAIN f}

\* The (resource, permission id, kind) entries of a requiredResourceAccess.
AccessSet(ra) ==
    UNION { {<<ra[i].resourceAppId, ra[i].resourceAccess[j].id,
               ra[i].resourceAccess[j].type>> : j \in 1..Len(ra[i].resourceAccess)}
            : i \in 1..Len(ra) }

\* No permission id occurs twice in a Microsoft Graph entry.
NoDuplicateIds(ra) ==
    \A i \in 1..Len(ra) : ra[i].resourceAppId = GraphApiId =>
        \A j, k \in 1..Len(ra[i].resourceAccess) :
            ra[i].resourceAccess[j].id = ra[i].resourceAccess[k].id => j = k

\* C10: add_required_permissions persists no duplicate permission id in the
\* Microsoft Graph entry, also when a name is passed twice in one call; and a
\* second call with the same names on the same application, reading what the
\* first call persisted, persists the same set of entries.
C10_IdempotentMerge ==
    /\ \A i \in 1..Len(patched) : NoDuplicateIds(patched[i].body)
    /\ \A i \in 2..Len(patched) :
          (/\ patched[i].target = patched[i - 1].target
           /\ Range(patched[i].permissions) = Range(patched[i - 1].permissions)
           /\ patched[i].read = patched[i - 1].body) =>
              AccessSet(patched[i].body) = AccessSet(patched[i - 1].body)

\* Two calls with the same names, one of them passed twice, the second
\* reading the entry the first one persisted.
C10_Witness ==
    /\ Len(patched) = 2
    /\ patched[1].permissions = <<UserRead, UserRead>>
    /\ patched[2].permissions = <<UserRead, UserRead>>
    /\ patched[2].read = patched[1].body
    /\ AccessSet(patched[1].read) # AccessSet(patched[1].body)


\* The name is in neither catalog of the Graph service principal.
InNoCatalog(permission) ==
    /\ FindDef(GraphCatalog.appRoles, permission) = 0
    /\ FindDef(GraphCatalog.oauth2PermissionScopes, permission) = 0

\* The name resolves: the catalog the loop looks in has an entry for it.
Resolves(permission) ==
    FindDef(CatalogFor(GraphCatalog, PermissionType(permission)), permission) # 0

\* The entry a resolving name stands for.
ResolvedEntry(permission) ==
    LET ptype == PermissionType(permission)
        defs == CatalogFor(GraphCatalog, ptype)
    IN  <<GraphApiId, defs[FindDef(defs, permission)].id,
          IF ptype = "Application" THEN "Role" ELSE "Scope">>

HasUnknownName(t) ==
    /\ loc[t].permissions.t = "list"
    /\ \E i \in 1..Len(loc[t].permissions.l) : InNoCatalog(loc[t].permissions.l[i])

\* C11: a call of add_required_permissions whose list holds a name found in
\* neither catalog raises nothing for it: once the catalog has been read the
\* update is the next step and its body holds the entry of every name of the
\* list that resolves; and the call that ends without a failed request
\* returns success, the update having been sent and persisted.
C11_SkipUnknown ==
    \A t \in Threads : HasUnknownName(t) =>
        /\ \A i \in 1..Len(raised[t]) :
              raised[t][i].step = "perms_get_catalog" =>
                  raised[t][i].cls \in {"ClientAuthenticationError", "RequestException",
                                       "IndexError"}
        /\ (calls[t] # <<>> /\ Last(calls[t]).op = "GET catalog"
               /\ Last(calls[t]).ok /\ raised[t] = <<>>) =>
              /\ pc[t] = "perms_patch"
              /\ \A i \in 1..Len(loc[t].permissions.l) :
                    Resolves(loc[t].permissions.l[i]) =>
                        ResolvedEntry(loc[t].permissions.l[i])
                            \in AccessSet(loc[t].update_data)
        /\ (loc[t].direct /\ pc[t] = "done" /\ raised[t] = <<>>) =>
              /\ env[t].returned /\ env[t].success
              /\ Last(calls[t]).op = "PATCH application" /\ Last(calls[t]).ok
              /\ patched # <<>>
              /\ Last(patched).permissions = loc[t].permissions.l
              /\ \A i \in 1..Len(loc[t].permissions.l) :
                    Resolves(loc[t].permissions.l[i]) =>
                        ResolvedEntry(loc[t].permissions.l[i])
                            \in AccessSet(Last(patched).body)

\* ["User.Read", "Bogus.All", "Sites.Read.All"] on an application that had
\* neither permission: the call returned True and both were persisted.
C11_Witness ==
    \E t \in Threads :
        /\ loc[t].direct /\ pc[t] = "done" /\ env[t].success
        /\ loc[t].permissions.l = <<UserRead, BogusAll, SitesReadAll>>
        /\ patched # <<>>
        /\ Last(patched).permissions = loc[t].permissions.l
        /\ AccessSet(Last(patched).read) \cap
               {ResolvedEntry(UserRead), ResolvedEntry(SitesReadAll)} = {}
        /\ {ResolvedEntry(UserRead), ResolvedEntry(SitesReadAll)}
               \subseteq AccessSet(Last(patched).body)


\* process_command has dispatched on the descriptor parse_command returned.
Dispatched(t) ==
    ~loc[t].direct /\ ~parsed[t].none /\ pc[t] \in CreatePcs \cup {"done"}

NonEmptyString(j) == j.t = "str" /\ j.s # ""

\* C12: every descriptor process_command has dispatched on has its action
\* field, and when the action is create_app_registration its appName is a
\* non-empty string; so _create_app_registration never runs, and no
\* application is posted, with an absent, null or empty name.
C12_NonEmptyAppName ==
    \A t \in Threads : Dispatched(t) =>
        /\ parsed[t].d.action.t # "absent"
        /\ IsAction(parsed[t].d.action, "create_app_registration") =>
              NonEmptyString(parsed[t].d.appName)
        /\ (calls[t] # <<>> /\ calls[t][1].op = "POST /applications") =>
              NonEmptyString(loc[t].app_name)


\* parse_command has been called and has answered.
Parsed(t) == parsed[t].reply # NoReply

\* C13: parse_command returns None when the model call raised, when the reply
\* did not decode, when it decoded to something that is no JSON object, when
\* the object has no action key, and when its action is
\* create_app_registration and it has no appName key.
C13_ParseFailure ==
    \A t \in Threads : Parsed(t) =>
        LET decoded == parsed[t].decoded
        IN  (\/ parsed[t].reply.raises
             \/ ~decoded.ok
             \/ ~decoded.isDict
             \/ decoded.d.action.t = "absent"
             \/ /\ IsAction(decoded.d.action, "create_app_registration")
                /\ decoded.d.appName.t = "absent") => parsed[t].none

\* A create_app_registration object with permissions and no appName was
\* rejected and the command was answered.
C13_Witness ==
    \E t \in Threads :
        /\ Parsed(t) /\ parsed[t].none /\ pc[t] = "done"
        /\ parsed[t].decoded.ok /\ parsed[t].decoded.isDict
        /\ IsAction(parsed[t].decoded.d.action, "create_app_registration")
        /\ parsed[t].decoded.d.appName.t = "absent"
        /\ Truthy(parsed[t].decoded.d.permissions)


\* C14: when parse_command has returned None, process_command returns the
\* failure envelope asking to rephrase (no exception is raised), the
\* completion endpoint has been called once for the command, and the command
\* fetches no token and sends no request.
C14_Rephrase ==
    \A t \in Threads : (Parsed(t) /\ parsed[t].none) =>
        /\ modelCalls[t] = 1
        /\ calls[t] = <<>> /\ fetches[t] = 0 /\ rpc[t] = "none"
        /\ raised[t] = <<>>
        /\ pc[t] \in {"dispatch", "done"}
        /\ pc[t] = "done" =>
              /\ env[t].returned /\ ~env[t].success /\ ~env[t].hasData
              /\ env[t].message =
                    <<"Failed to parse command. Please try rephrasing.", "">>

\* The completion call raised and the command was answered.
C14_Witness ==
    \E t \in Threads :
        /\ Parsed(t) /\ parsed[t].reply.raises /\ parsed[t].none
        /\ pc[t] = "done" /\ env[t].returned

KnownActions ==
    {"create_app_registration", "update_app_registration", "delete_app_registration"}

\* The descriptor's action is none of the three known ones.
UnknownAction(t) ==
    /\ Parsed(t) /\ ~parsed[t].none
    /\ ~(parsed[t].d.action.t = "str" /\ parsed[t].d.action.s \in KnownActions)

\* C15: a descriptor whose action is none of the three known ones is answered
\* with success = false and the message "Unknown action: " followed by the
\* action's value (None for null), and the command fetches no token and
\* sends no request.
C15_UnknownAction ==
    \A t \in Threads : UnknownAction(t) =>
        /\ calls[t] = <<>> /\ fetches[t] = 0 /\ rpc[t] = "none"
        /\ raised[t] = <<>>
        /\ pc[t] \in {"dispatch", "done"}
        /\ pc[t] = "done" =>
              /\ env[t].returned /\ ~env[t].success
              /\ env[t].message[1] = "Unknown action: "
              /\ env[t].message[2] =
                    (IF parsed[t].d.action.t = "str" THEN parsed[t].d.action.s
                     ELSE "None")

\* "list_apps" was answered.
C15_Witness ==
    \E t \in Threads :
        /\ UnknownAction(t) /\ pc[t] = "done"
        /\ parsed[t].d.action = JStr("list_apps")
        /\ env[t].message[2] = "list_apps"


\* The text is one JSON object with prose or code-fence markers around it.
OneObjectWrapped(text) ==
    /\ Len(text) > 1
    /\ Cardinality({i \in 1..Len(text) : text[i].k = "obj"}) = 1
    /\ \A i \in 1..Len(text) : text[i].k \in {"obj", "prose", "fence"}

TheObject(text) == text[CHOOSE i \in 1..Len(text) : text[i].k = "obj"].d

\* The text has no '{' that a '}' follows.
NoBraceSpan(text) ==
    ~\E i, j \in 1..Len(text) :
        /\ i <= j
        /\ text[i].k \in {"obj", "open"}
        /\ text[j].k \in {"obj", "close"}

\* C16: from a reply that is one JSON object wrapped in prose or a code
\* fence, parse_command decodes the span from the first '{' to the last '}',
\* which is that object, and returns it when it validates (None when it
\* does not); from a reply without a brace span it decodes the entire reply,
\* which succeeds only when the reply is one JSON document.
C16_BraceSpan ==
    \A t \in Threads : (Parsed(t) /\ ~parsed[t].reply.raises) =>
        LET text == parsed[t].reply.text
            decoded == parsed[t].decoded
        IN  /\ OneObjectWrapped(text) =>
                  /\ decoded.branch = "span"
                  /\ decoded.ok /\ decoded.isDict
                  /\ decoded.d = TheObject(text)
                  /\ parsed[t].none <=>
                        (\/ TheObject(text).action.t = "absent"
                         \/ /\ IsAction(TheObject(text).action, "create_app_registration")
                            /\ TheObject(text).appName.t = "absent")
                  /\ ~parsed[t].none => parsed[t].d = TheObject(text)
            /\ NoBraceSpan(text) =>
                  /\ decoded.branch = "whole"
                  /\ decoded.ok <=> (Len(text) = 1 /\ text[1].k = "doc")
                  /\ parsed[t].none

\* A create command whose JSON came wrapped in prose ran to its first
\* request.
C16_Witness ==
    \E t \in Threads :
        /\ Parsed(t) /\ OneObjectWrapped(parsed[t].reply.text)
        /\ parsed[t].reply.text[1].k = "prose"
        /\ ~parsed[t].none
        /\ IsAction(parsed[t].d.action, "create_app_registration")
        /\ calls[t] # <<>>


\* The identifiers the thread's log records carry.
Logged(t) == UNION {logs[t][i].vals : i \in 1..Len(logs[t])}

IsSecretText(v) == v[1] = "secret"

\* C18: in every run of process_command, failed or not, no log record
\* carries a secretText; the secretText that secret creation returned is in
\* the envelope's data.clientSecret when the run succeeded and in no other
\* field of the envelope, and what the log carries of the secret is its id.
C18_SecretNotLogged ==
    \A t \in Threads : ~loc[t].direct =>
        /\ \A v \in Logged(t) : ~IsSecretText(v)
        /\ ~IsSecretText(env[t].data.applicationId)
        /\ ~IsSecretText(env[t].data.objectId)
        /\ ~IsSecretText(env[t].data.servicePrincipalId)
        /\ loc[t].client_secret # NoId =>
              /\ IsSecretText(loc[t].client_secret)
              /\ loc[t].secret_id \in Logged(t)
              /\ env[t].success => env[t].data.clientSecret = loc[t].client_secret
              /\ (pc[t] = "done" /\ ~env[t].success) => ~env[t].hasData

\* A run failed after its secret was created and logged by id.
C18_Witness ==
    \E t \in Threads :
        /\ ~loc[t].direct /\ pc[t] = "done" /\ raised[t] # <<>>
        /\ loc[t].client_secret # NoId
        /\ loc[t].secret_id \in Logged(t)
        /\ \E i \in 1..Len(logs[t]) : logs[t][i].stmt = "app_orchestrator:139"


\* C17: when the agent could not be constructed, every request through every
\* delivery surface (command line, HTTP function, embedded web server) is
\* answered with the envelope success = false, "Agent not initialized. Check
\* logs for details.", and no command is processed.
C17_NotInitialized ==
    \A t \in Threads : (agent = "none" /\ out[t].kind # "none") =>
        /\ out[t].kind = "json"
        /\ out[t].body = NotInitializedEnvelope
        /\ pc[t] = "idle" /\ modelCalls[t] = 0 /\ calls[t] = <<>>


CreatingOps == {"POST /applications", "POST addPassword", "POST /servicePrincipals"}

Sent(t, op) == Cardinality({i \in 1..Len(calls[t]) : calls[t][i].op = op})

\* C19: within one run of process_command each resource-creating request
\* (POST /applications, POST addPassword, POST /servicePrincipals) is sent at
\* most once; a request that came back with an error status is the run's
\* last request: the error was raised at once and the run is over; so the
\* provider holds at most one application, one secret and one service
\* principal per command.
C19_NoRetry ==
    /\ \A t \in Threads : ~loc[t].direct =>
          /\ \A op \in CreatingOps : Sent(t, op) <= 1
          /\ \A i \in 1..Len(calls[t]) : ~calls[t][i].ok =>
                /\ i = Len(calls[t])
                /\ pc[t] = "done" /\ rpc[t] = "none"
                /\ Len(raised[t]) = 1
                /\ raised[t][1].cls = "RequestException"
                /\ raised[t][1].msg = calls[t][i].op
    /\ Cardinality(applications) <= cmdCount
    /\ Cardinality(passwords) <= cmdCount
    /\ Cardinality(servicePrincipals) <= cmdCount

\* The service-principal request failed at the end of a run with
\* permissions: six requests, none sent twice.
C19_Witness ==
    \E t \in Threads :
        /\ ~loc[t].direct /\ pc[t] = "done"
        /\ Len(calls[t]) = 6
        /\ Last(calls[t]).op = "POST /servicePrincipals" /\ ~Last(calls[t]).ok
        /\ servicePrincipals = {}


\* The name's last dot-separated segment is "All".
EndsInAll(permission) == Last(permission) = "All"

RoleEntry(permission) ==
    <<GraphApiId,
      GraphCatalog.appRoles[FindDef(GraphCatalog.appRoles, permission)].id, "Role">>

ScopeEntry(permission) ==
    <<GraphApiId,
      GraphCatalog.oauth2PermissionScopes[
          FindDef(GraphCatalog.oauth2PermissionScopes, permission)].id, "Scope">>

\* C20: in every update add_required_permissions has sent, a requested name
\* whose last dot-separated segment is "All" and that the role catalog
\* holds is recorded with its role id and kind Role; any other requested
\* name that the scope catalog holds is recorded with its scope id and kind
\* Scope; and every entry the call added is one of these.
C20_Classification ==
    \A i \in 1..Len(patched) :
        LET names == Range(patched[i].permissions)
            body == AccessSet(patched[i].body)
        IN  /\ \A p \in names :
                  IF EndsInAll(p)
                  THEN FindDef(GraphCatalog.appRoles, p) # 0 => RoleEntry(p) \in body
                  ELSE FindDef(GraphCatalog.oauth2PermissionScopes, p) # 0 =>
                           ScopeEntry(p) \in body
            /\ \A e \in body \ AccessSet(patched[i].read) :
                  \E p \in names :
                      IF EndsInAll(p)
                      THEN FindDef(GraphCatalog.appRoles, p) # 0 /\ e = RoleEntry(p)
                      ELSE /\ FindDef(GraphCatalog.oauth2PermissionScopes, p) # 0
                           /\ e = ScopeEntry(p)


PermissionOps == {"GET application", "GET catalog", "PATCH application"}

\* C21: a direct call of add_required_permissions with an empty list returns
\* True and has fetched no token and sent no request; and a run of
\* _create_app_registration for which no permissions were requested sends no
\* request of the permission step and goes from the secret to the service
\* principal.
C21_EmptyPermissions ==
    \A t \in Threads :
        /\ (loc[t].direct /\ loc[t].permissions = JList(<<>>)) =>
              /\ pc[t] = "done" /\ rpc[t] = "none"
              /\ env[t].returned /\ env[t].success /\ ~env[t].escaped
              /\ calls[t] = <<>> /\ fetches[t] = 0 /\ raised[t] = <<>>
        /\ (InCreateRun(t) /\ ~PermissionsRequested(loc[t].permissions)) =>
              /\ \A i \in 1..Len(calls[t]) : calls[t][i].op \notin PermissionOps
              /\ pc[t] \in {"create_app", "create_secret", "create_sp", "done"}
              /\ (Len(calls[t]) = 2 /\ calls[t][2].ok /\ raised[t] = <<>>) =>
                    pc[t] = "create_sp"
              /\ env[t].success => Ops(t) = PlanOps(FALSE)

\* A command without permissions created its service principal without any
\* update, and after it a direct call with an empty list returned True.
C21_Witness ==
    \E t \in Threads :
        /\ loc[t].direct /\ loc[t].permissions = JList(<<>>)
        /\ pc[t] = "done" /\ env[t].success
        /\ servicePrincipals # {} /\ patched = <<>>


\* The thread runs, or has run, add_required_permissions past line 137.
InPermissionStep(t) ==
    /\ loc[t].permissions.t = "list" /\ Len(loc[t].permissions.l) > 0
    /\ \E i \in 1..Len(calls[t]) : calls[t][i].op \in PermissionOps

\* The positions of the calls with the given name.
CallsOf(t, op) == {i \in 1..Len(calls[t]) : calls[t][i].op = op}

\* The resource APIs of a requiredResourceAccess, in order.
Resources(ra) == [i \in 1..Len(ra) |-> ra[i].resourceAppId]

\* C22: an add_required_permissions call with a non-empty list sends at most
\* one PATCH, and sends it only after its GET of the application and its GET
\* of the catalog have both succeeded (so a failed read is followed by no
\* PATCH); the call that returns True has sent exactly one; and the PATCH
\* carries the whole requiredResourceAccess list: every resource entry that
\* was read, in the order read, with the Microsoft Graph entry among them.
C22_OneUpdate ==
    /\ \A t \in Threads : InPermissionStep(t) =>
          /\ Sent(t, "PATCH application") <= 1
          /\ Sent(t, "GET application") <= 1
          /\ Sent(t, "GET catalog") <= 1
          /\ \A i \in CallsOf(t, "PATCH application") :
                /\ \E j \in CallsOf(t, "GET application") : j < i /\ calls[t][j].ok
                /\ \E j \in CallsOf(t, "GET catalog") : j < i /\ calls[t][j].ok
          /\ (\E j \in 1..Len(calls[t]) :
                  calls[t][j].op \in {"GET application", "GET catalog"}
                  /\ ~calls[t][j].ok) => Sent(t, "PATCH application") = 0
          /\ (loc[t].direct /\ pc[t] = "done" /\ env[t].success) =>
                (Sent(t, "PATCH application") = 1 /\ Last(calls[t]).ok)
          /\ pc[t] = "perms_patch" =>
                /\ IsPrefix(Resources(loc[t].app_rra), Resources(loc[t].update_data))
                /\ GraphIndex(loc[t].update_data) # 0
    /\ \A i \in 1..Len(patched) :
          /\ IsPrefix(Resources(patched[i].read), Resources(patched[i].body))
          /\ GraphIndex(patched[i].body) # 0
    /\ patched # <<>> =>
          \E a \in applications :
              /\ a.id = Last(patched).target
              /\ a.requiredResourceAccess = Last(patched).body

\* A call on an application that had SharePoint permissions only: two reads,
\* one PATCH with both resource entries, True.
C22_Witness ==
    \E t \in Threads :
        /\ loc[t].direct /\ pc[t] = "done" /\ env[t].success
        /\ Ops(t) = <<"GET application", "GET catalog", "PATCH application">>
        /\ Resources(Last(patched).read) = <<SharePointApiId>>
        /\ Resources(Last(patched).body) = <<SharePointApiId, GraphApiId>>


InGrant(t) == loc[t].method = "grant_admin_consent"

\* C23: grant_admin_consent sends its grant requests in the order of the
\* ids, one per id; only the last request sent can have failed, so after a
\* failure nothing is sent for a later id; no exception reaches the caller;
\* and it returns True exactly when a request was sent for every id and
\* every request succeeded, False otherwise.
C23_GrantStopsAtFailure ==
    \A t \in Threads : InGrant(t) =>
        /\ Len(calls[t]) <= Len(loc[t].permission_ids)
        /\ \A i \in 1..Len(calls[t]) :
              /\ calls[t][i].op = "POST /oauth2PermissionGrants"
              /\ calls[t][i].arg = loc[t].permission_ids[i]
              /\ i < Len(calls[t]) => calls[t][i].ok
        /\ ~env[t].escaped
        /\ raised[t] # <<>> => (pc[t] = "done" /\ ~env[t].success)
        /\ pc[t] = "done" =>
              /\ env[t].returned
              /\ env[t].success <=>
                    /\ Len(calls[t]) = Len(loc[t].permission_ids)
                    /\ \A i \in 1..Len(calls[t]) : calls[t][i].ok

\* Of three ids the second grant failed: two requests, False.
C23_Witness ==
    \E t \in Threads :
        /\ InGrant(t) /\ pc[t] = "done"
        /\ Len(loc[t].permission_ids) = 3
        /\ Len(calls[t]) = 2 /\ calls[t][1].ok /\ ~calls[t][2].ok
        /\ env[t].returned /\ ~env[t].success


\* The identifiers the responses to thread t's requests carried.
Produced(t) ==
    ({calls[t][i].res.id : i \in 1..Len(calls[t])}
        \cup {calls[t][i].res.value : i \in 1..Len(calls[t])}) \ {NoId}

\* The identifiers thread t sent in requests or returned in its envelope.
Used(t) ==
    ({calls[t][i].arg : i \in 1..Len(calls[t])} \ {NoId})
    \cup (IF env[t].hasData
          THEN {env[t].data.applicationId, env[t].data.objectId,
                env[t].data.servicePrincipalId, env[t].data.clientSecret}
          ELSE {})

\* C24: under every interleaving of two requests on the shared agent, each
\* run passes to secret creation and to the permission merge the objectId
\* its own first request returned, to service-principal creation the appId
\* its own first request returned, and fills the four data fields of its
\* envelope from its own responses; no identifier a run uses was produced
\* by a response to the other run.
C24_RunsIsolated ==
    \A t \in Threads : InCreateRun(t) =>
        /\ \A i \in 1..Len(calls[t]) :
              /\ calls[t][i].op \in {"POST addPassword", "GET application",
                                     "PATCH application"}
                    => calls[t][i].arg = calls[t][1].res.id
              /\ calls[t][i].op = "POST /servicePrincipals"
                    => calls[t][i].arg = calls[t][1].res.value
        /\ env[t].hasData =>
              /\ env[t].data.applicationId = calls[t][1].res.value
              /\ env[t].data.objectId = calls[t][1].res.id
              /\ env[t].data.clientSecret = calls[t][2].res.value
              /\ env[t].data.servicePrincipalId = Last(calls[t]).res.id
        /\ Used(t) \subseteq Produced(t)
        /\ \A u \in Threads \ {t} : Used(t) \cap Produced(u) = {}

\* Two runs that both succeeded, the other run's application created
\* between this run's application and this run's secret.
C24_Witness ==
    \E t \in Threads : \E u \in Threads \ {t} :
        /\ InCreateRun(t) /\ InCreateRun(u)
        /\ pc[t] = "done" /\ pc[u] = "done"
        /\ env[t].success /\ env[u].success
        /\ calls[t][1].res.id[2] < calls[u][1].res.id[2]
        /\ calls[u][1].res.id[2] < calls[t][2].res.id[2]


\* C25: in every reachable state, under every interleaving of two threads'
\* _get_token calls on the shared GraphService, the cached token and the
\* cached expiry come from the same response of the credential provider.
C25_PairwiseConsistent ==
    cache.token # NoToken => expSrc = cache.token

\* No thread is between its two stores (lines 23 and 25), the cache holds
\* the token of one response and the expiry of another, and a thread at
\* line 18 is about to take that token for valid.
C25_ValidOnForeignExpiry ==
    /\ \A u \in Threads : rpc[u] \notin {"store_token", "store_expiry"}
    /\ cache.token # NoToken /\ expSrc # NoToken /\ expSrc # cache.token
    /\ \E t \in Threads : rpc[t] = "check" /\ TokenValid(cache, now)


\* The entries of the requested names that resolve.
ResolvedEntries(permissions) ==
    {ResolvedEntry(permissions[i]) :
        i \in {j \in 1..Len(permissions) : Resolves(permissions[j])}}

\* C26: the entries an add_required_permissions call persists are exactly
\* the entries it read from the application together with the entries of
\* the requested names that resolve; every resource entry read is still at
\* its place, another resource's entry unchanged and the Microsoft Graph
\* entry with its permissions read as a prefix of the permissions sent; at
\* most one resource entry (Microsoft Graph's) is new; and the application
\* holds what the last update carried.
C26_MergeOnlyAdds ==
    /\ \A i \in 1..Len(patched) :
          LET read == patched[i].read
              body == patched[i].body
          IN  /\ AccessSet(body) =
                    AccessSet(read) \cup ResolvedEntries(patched[i].permissions)
              /\ Len(read) <= Len(body) /\ Len(body) <= Len(read) + 1
              /\ \A k \in 1..Len(read) :
                    /\ body[k].resourceAppId = read[k].resourceAppId
                    /\ IsPrefix(read[k].resourceAccess, body[k].resourceAccess)
                    /\ read[k].resourceAppId # GraphApiId => body[k] = read[k]
              /\ \A k \in (Len(read) + 1)..Len(body) :
                    body[k].resourceAppId = GraphApiId
    /\ patched # <<>> =>
          \A a \in applications :
              a.id = Last(patched).target =>
                  a.requiredResourceAccess = Last(patched).body

\* An update for an application that held another resource's entry and
\* Microsoft Graph permissions, with one name that adds an entry, one that
\* is held already and one that does not resolve.
C26_Witness ==
    \E i \in 1..Len(patched) :
        /\ \E k \in 1..Len(patched[i].read) :
              patched[i].read[k].resourceAppId # GraphApiId
        /\ \E k \in 1..Len(patched[i].read) :
              /\ patched[i].read[k].resourceAppId = GraphApiId
              /\ patched[i].read[k].resourceAccess # <<>>
        /\ AccessSet(patched[i].body) # AccessSet(patched[i].read)
        /\ ResolvedEntries(patched[i].permissions) \cap AccessSet(patched[i].read) # {}
        /\ \E j \in 1..Len(patched[i].permissions) :
              ~Resolves(patched[i].permissions[j])

=============================================================================
